---------------------------- MODULE Spec2Model ----------------------------
(***************************************************************************)
(* State-machine model of streamlit_demo/self_driving/app.py: the summary  *)
(* aggregation and frame selection, the box overlay renderer, the weights  *)
(* download and the render cycle of main().                                *)
(***************************************************************************)
EXTENDS Integers, Sequences, FiniteSets

VARIABLES
    metadata,         \* the annotation table (a sequence of rows)
    summary,          \* <<>> before create_summary ran, else <<S>>
    sel,              \* <<>> or <<[label, min_elts, max_elts]>>: the arguments of the last selection
    selected_frames,  \* the result of get_selected_frames (a sequence of frames)
    mem,              \* the arrays that outlive a call: reference -> array
    boxes,            \* the box table of the last add_boxes call
    out,              \* <<>> or <<r>>: what the last add_boxes call returned or raised
    pc,               \* where main() stands: "idle", "weights", "reading", "model", "done", "fault"
    fault,            \* the exception that ended the render, "" if none
    log,              \* what the render did so far, in order: [ev, arg]
    selected_frame,   \* the frame of the render, 0 if none
    file,             \* the weights file: <<>> if absent, else <<its bytes>>
    dl,               \* the state of download_weights in this render
    detector          \* <<>> or <<[image, weights]>>: what yolo_v3 was called with in this render

tableVars == <<metadata, summary, sel, selected_frames>>
boxVars == <<mem, boxes, out>>
mainVars == <<pc, fault, log, selected_frame, file, dl, detector>>
vars == <<metadata, summary, sel, selected_frames, mem, boxes, out,
          pc, fault, log, selected_frame, file, dl, detector>>

-----------------------------------------------------------------------------
(* Bounds of the model *)

MaxFrames == 2      \* frames are 1..MaxFrames (their order is the order of the file names)
MaxRows == 3        \* rows of an annotation table
MaxElts == 2        \* values of min_elts and max_elts that are tried (the slider allows 0..25)
ImgH == 1           \* image height
ImgW == 2           \* image width
MaxOut == 1         \* how far a box coordinate may lie beyond the image, on either side
MaxBoxes == 2       \* rows of a box table with overlapping boxes
MaxChunks == 2      \* full chunks in the longest body the remote serves

-----------------------------------------------------------------------------
(* Generic helpers *)

SeqsUpTo(S, n) == UNION {[1..k -> S] : k \in 0..n}

Min(S) == CHOOSE x \in S : \A y \in S : x <= y

RECURSIVE SortedSeq(_)
SortedSeq(S) == IF S = {} THEN <<>> ELSE <<Min(S)>> \o SortedSeq(S \ {Min(S)})

Range(s) == {s[i] : i \in DOMAIN s}

-----------------------------------------------------------------------------
(* The label -> colour table *)

LABEL_COLORS ==
    [car |-> <<255, 0, 0>>,
     pedestrian |-> <<0, 255, 0>>,
     truck |-> <<0, 0, 255>>,
     trafficLight |-> <<255, 255, 0>>,
     biker |-> <<255, 0, 255>>]

-----------------------------------------------------------------------------
(* create_summary *)

\* metadata[['frame', 'label']]
Project(md) == [i \in DOMAIN md |-> [frame |-> md[i].frame, label |-> md[i].label]]

\* pandas names the dummy column of label value l "label_" + l
DummyCol(l) == <<"label", l>>

\* pd.get_dummies(..., columns=['label']): one 0/1 column per label value that occurs
get_dummies(t) ==
    LET cols == {DummyCol(t[i].label) : i \in DOMAIN t}
    IN [i \in DOMAIN t |->
          [frame |-> t[i].frame,
           dummies |-> [c \in cols |-> IF c = DummyCol(t[i].label) THEN 1 ELSE 0]]]

RECURSIVE SumCol(_, _, _)
\* the sum of column c over the rows of frame f
SumCol(oh, f, c) ==
    IF oh = <<>> THEN 0
    ELSE (IF Head(oh).frame = f THEN Head(oh).dummies[c] ELSE 0) + SumCol(Tail(oh), f, c)

RECURSIVE MaxCol(_, _, _)
MaxCol(oh, f, c) ==
    IF oh = <<>> THEN 0
    ELSE LET r == MaxCol(Tail(oh), f, c)
             h == IF Head(oh).frame = f THEN Head(oh).dummies[c] ELSE 0
         IN IF h > r THEN h ELSE r

\* a plausible slip: .groupby(['frame']).max() (presence, not count)
GroupByMax(oh) ==
    LET keys == {oh[i].frame : i \in DOMAIN oh}
        cols == UNION {DOMAIN oh[i].dummies : i \in DOMAIN oh}
    IN [index |-> SortedSeq(keys),
        columns |-> cols,
        data |-> [f \in keys |-> [c \in cols |-> MaxCol(oh, f, c)]]]

\* one_hot_encoded.groupby(['frame']).sum(): one row per frame, in sorted key order
GroupBySum(oh) ==
    LET keys == {oh[i].frame : i \in DOMAIN oh}
        cols == UNION {DOMAIN oh[i].dummies : i \in DOMAIN oh}
    IN [index |-> SortedSeq(keys),
        columns |-> cols,
        data |-> [f \in keys |-> [c \in cols |-> SumCol(oh, f, c)]]]

create_summary(md) == GroupBySum(get_dummies(Project(md)))

-----------------------------------------------------------------------------
(* get_selected_frames *)

RECURSIVE Filter(_, _)
\* boolean-mask indexing: the rows whose mask is TRUE, in row order
Filter(idx, mask) ==
    IF idx = <<>> THEN <<>>
    ELSE (IF mask[Head(idx)] THEN <<Head(idx)>> ELSE <<>>) \o Filter(Tail(idx), mask)

\* a plausible slip: an exclusive lower end
get_selected_frames_strict(S, label, min_elts, max_elts) ==
    LET mask == [f \in Range(S.index) |->
                   S.data[f][label] > min_elts /\ S.data[f][label] <= max_elts]
    IN Filter(S.index, mask)

get_selected_frames(S, label, min_elts, max_elts) ==
    LET mask == [f \in Range(S.index) |->
                   S.data[f][label] >= min_elts /\ S.data[f][label] <= max_elts]
    IN Filter(S.index, mask)

-----------------------------------------------------------------------------
(* Specification of the table functions: the inputs are drawn from bounded  *)
(* sets and the functions are applied to them.                             *)

TableLabels == {"car", "truck"}

TableRows ==
    [frame : 1..MaxFrames, xmin : {0}, ymin : {0}, xmax : {1}, ymax : {1}, label : TableLabels]

Tables == SeqsUpTo(TableRows, MaxRows)

BoxesIdle == mem = <<>> /\ boxes = <<>> /\ out = <<>>

MainIdle ==
    /\ pc = "idle" /\ fault = "" /\ log = <<>> /\ selected_frame = 0
    /\ file = <<>> /\ dl = <<>> /\ detector = <<>>

InitTables ==
    /\ metadata \in Tables
    /\ summary = <<>>
    /\ sel = <<>>
    /\ selected_frames = <<>>
    /\ BoxesIdle
    /\ MainIdle

CreateSummaryCall ==
    /\ summary = <<>>
    /\ summary' = <<create_summary(metadata)>>
    /\ UNCHANGED <<metadata, sel, selected_frames, boxVars, mainVars>>

SelectCall ==
    /\ summary # <<>>
    /\ \E label \in summary[1].columns, a \in 0..MaxElts, b \in 0..MaxElts :
         /\ sel' = <<[label |-> label, min_elts |-> a, max_elts |-> b]>>
         /\ selected_frames' = get_selected_frames(summary[1], label, a, b)
    /\ UNCHANGED <<metadata, summary, boxVars, mainVars>>

NextTables == CreateSummaryCall \/ SelectCall

SpecTables == InitTables /\ [][NextTables]_vars

-----------------------------------------------------------------------------
(* add_boxes *)

(* A pixel channel is a dyadic rational <<n, k>>, standing for n / 2^k: the *)
(* values a float64 holds exactly after halvings. A uint8 channel has k = 0. *)
Float(n, k) == <<n, k>>

\* image[...] += c
AddTo(v, c) == Float(v[1] + c * 2^v[2], v[2])

\* image[...] /= 2
Halve(v) == Float(v[1], v[2] + 1)

\* .astype(np.uint8) of a value in [0, 256): truncation
ToUint8(v) == Float(v[1] \div 2^v[2], 0)

Channels == 1..3

Positions(img) == (0..(img.h - 1)) \X (0..(img.w - 1))

\* a slice bound of Python: a negative bound counts from the end, then both are clamped
SliceBound(i, n) ==
    IF i < 0 THEN (IF i + n < 0 THEN 0 ELSE i + n) ELSE (IF i > n THEN n ELSE i)

\* the indices lo:hi selects on an axis of length n
SliceIndices(lo, hi, n) == {i \in 0..(n - 1) : SliceBound(lo, n) <= i /\ i < SliceBound(hi, n)}

\* the pixels of image[ymin:ymax, xmin:xmax, :]
Region(img, box) ==
    SliceIndices(box.ymin, box.ymax, img.h) \X SliceIndices(box.xmin, box.xmax, img.w)

\* lines 78 and 79 on one array
BlendBox(img, box) ==
    LET c == LABEL_COLORS[box.label]
    IN [img EXCEPT !.px = [p \in Positions(img) |->
          IF p \in Region(img, box)
          THEN [ch \in Channels |-> Halve(AddTo(img.px[p][ch], c[ch]))]
          ELSE img.px[p]]]

BufRef == 0     \* the reference of the array astype allocates

\* a plausible slip: astype(np.float64, copy=False) semantics taken for a cast in place
AstypeInPlace(m, ref) == [mem |-> m, ref |-> ref]

\* image.astype(np.float64): a new array, the old one untouched
AstypeFloat64(m, ref) ==
    [mem |-> [r \in DOMAIN m \cup {BufRef} |-> IF r = BufRef THEN m[ref] ELSE m[r]],
     ref |-> BufRef]

RECURSIVE BlendLoop(_, _, _, _)
\* the for loop: a KeyError at the first label LABEL_COLORS does not map
BlendLoop(m, ref, bs, regions) ==
    IF bs = <<>> THEN [mem |-> m, fault |-> "", regions |-> regions]
    ELSE IF Head(bs).label \notin DOMAIN LABEL_COLORS
         THEN [mem |-> m, fault |-> "KeyError", regions |-> regions]
         ELSE BlendLoop([m EXCEPT ![ref] = BlendBox(m[ref], Head(bs))], ref, Tail(bs),
                        Append(regions, Region(m[ref], Head(bs))))

RECURSIVE BlendLoopFromOriginal(_, _, _, _, _)
BlendLoopFromOriginal(m, orig, ref, bs, regions) ==
    IF bs = <<>> THEN [mem |-> m, fault |-> "", regions |-> regions]
    ELSE IF Head(bs).label \notin DOMAIN LABEL_COLORS
         THEN [mem |-> m, fault |-> "KeyError", regions |-> regions]
         ELSE LET b == BlendBox(orig, Head(bs))
                  n == [m[ref] EXCEPT !.px = [p \in Positions(orig) |->
                          IF p \in Region(orig, Head(bs)) THEN b.px[p] ELSE m[ref].px[p]]]
              IN BlendLoopFromOriginal([m EXCEPT ![ref] = n], orig, ref, Tail(bs),
                                       Append(regions, Region(orig, Head(bs))))

Result(m, a, r) ==
    [mem |-> [x \in DOMAIN m |-> r.mem[x]],
     fault |-> r.fault,
     regions |-> r.regions,
     image |-> IF r.fault = "" 
               THEN <<[r.mem[a.ref] EXCEPT !.px =
                        [p \in Positions(r.mem[a.ref]) |->
                           [ch \in Channels |-> ToUint8(r.mem[a.ref].px[p][ch])]]]>>
               ELSE <<>>]

\* a plausible slip: every box blended from the original pixels, not the blended ones
AddBoxesFromOriginal(m, ref, bs) ==
    LET a == AstypeFloat64(m, ref)
    IN Result(m, a, BlendLoopFromOriginal(a.mem, m[ref], a.ref, bs, <<>>))

(* add_boxes(image, boxes), image being the array m[ref]: the memory after  *)
(* the call (the local arrays are gone), the fault raised if any, the       *)
(* regions assigned to, in order, and the array returned.                   *)
add_boxes(m, ref, bs) ==
    LET a == AstypeFloat64(m, ref)
    IN Result(m, a, BlendLoop(a.mem, a.ref, bs, <<>>))

-----------------------------------------------------------------------------
(* Specification of add_boxes alone: an image and box tables drawn from     *)
(* bounded sets.                                                            *)

PixelSeeds == {100, 250}

\* an image whose channels all differ, some of them 254 and 255
MakeImage(h, w, seed) ==
    [h |-> h, w |-> w,
     px |-> [p \in (0..(h - 1)) \X (0..(w - 1)) |->
               [ch \in Channels |-> Float((seed + 3 * (w * p[1] + p[2]) + ch) % 256, 0)]]]

Images == {MakeImage(ImgH, ImgW, s) : s \in PixelSeeds}

\* one box anywhere, also outside the image, also with a label that has no colour
AnyBoxes ==
    [xmin : (0 - ImgW - MaxOut)..(ImgW + MaxOut), xmax : (0 - ImgW - MaxOut)..(ImgW + MaxOut),
     ymin : (0 - ImgH - MaxOut)..(ImgH + MaxOut), ymax : (0 - ImgH - MaxOut)..(ImgH + MaxOut),
     label : {"car", "bus"}]

\* the boxes inside the image that hold a pixel
InnerBoxes ==
    {b \in [xmin : 0..ImgW, xmax : 0..ImgW, ymin : 0..ImgH, ymax : 0..ImgH,
            label : {"car", "trafficLight"}] : b.xmin < b.xmax /\ b.ymin < b.ymax}

BoxTables == {<<b>> : b \in AnyBoxes} \cup SeqsUpTo(InnerBoxes, MaxBoxes)

ImageRef == 1

TablesIdle == metadata = <<>> /\ summary = <<>> /\ sel = <<>> /\ selected_frames = <<>>

InitBoxes ==
    /\ \E img \in Images : mem = [r \in {ImageRef} |-> img]
    /\ boxes = <<>>
    /\ out = <<>>
    /\ TablesIdle
    /\ MainIdle

AddBoxesCall ==
    /\ out = <<>>
    /\ \E bs \in BoxTables :
         LET r == add_boxes(mem, ImageRef, bs)
         IN /\ mem' = r.mem
            /\ boxes' = bs
            /\ out' = <<r>>
    /\ UNCHANGED <<tableVars, mainVars>>

NextBoxes == AddBoxesCall

SpecBoxes == InitBoxes /\ [][NextBoxes]_vars

-----------------------------------------------------------------------------
(* The weights file and its checksum *)

(* The bytes of a file or of a response body, run-length encoded: a sequence *)
(* of runs <<byte, count>>, count > 0, adjacent runs of different bytes.     *)
Bytes(v, n) == IF n = 0 THEN <<>> ELSE <<<<v, n>>>>

RECURSIVE Size(_)
Size(c) == IF c = <<>> THEN 0 ELSE Head(c)[2] + Size(Tail(c))

\* c followed by d
Concat(c, d) ==
    IF c = <<>> THEN d
    ELSE IF d = <<>> THEN c
    ELSE IF c[Len(c)][1] = d[1][1]
         THEN SubSeq(c, 1, Len(c) - 1) \o <<<<d[1][1], c[Len(c)][2] + d[1][2]>>>> \o Tail(d)
         ELSE c \o d

RECURSIVE Take(_, _)
\* the first n bytes of c (all of c if it is shorter)
Take(c, n) ==
    IF n <= 0 \/ c = <<>> THEN <<>>
    ELSE IF Head(c)[2] >= n THEN <<<<Head(c)[1], n>>>>
         ELSE <<Head(c)>> \o Take(Tail(c), n - Head(c)[2])

RECURSIVE Drop(_, _)
\* c without its first n bytes
Drop(c, n) ==
    IF n <= 0 \/ c = <<>> THEN c
    ELSE IF Head(c)[2] > n THEN <<<<Head(c)[1], Head(c)[2] - n>>>> \o Tail(c)
         ELSE Drop(Tail(c), n - Head(c)[2])

\* hashlib.md5 of the bytes, taken as free of collisions: the digest names the bytes
md5(c) == <<"md5", c>>

CHUNK == 8192   \* response.read(8192)

\* the artifact the known-good hash is the hash of: one full chunk and one more byte
GoodWeights == Bytes(1, (MaxChunks - 1) * CHUNK + 1)

WEIGTHS_MD5 == md5(GoodWeights)

\* a plausible slip: presence taken for validity
check_weights_exists(f) == f # <<>>

\* check_weights_hash(), f being the file (<<>> if absent)
check_weights_hash(f) ==
    IF f = <<>> THEN FALSE
    ELSE IF md5(f[1]) # WEIGTHS_MD5 THEN FALSE
    ELSE TRUE

-----------------------------------------------------------------------------
(* download_weights *)

\* a plausible slip: the fraction of the chunks still to come
ProgressLeft(counter, length) == <<length - counter, length>>

\* 1.0 * counter / length, as the fraction <<numerator, denominator>>
Progress(counter, length) == <<counter, length>>

\* progress if progress <= 1.0 else 1.0
Clamp(p) == IF p[1] <= p[2] THEN p ELSE <<1, 1>>

\* open(WEIGHTS_FILE, 'wb'): the file exists and is empty
OpenWb(f) == <<<<>>>>

BodyLens == {0, 1, (MaxChunks - 1) * CHUNK, (MaxChunks - 1) * CHUNK + 1, MaxChunks * CHUNK}

\* what the remote may serve: the artifact, a part of it, or other bytes
Bodies == {Bytes(v, n) : v \in {1, 2}, n \in BodyLens}

(* The responses of the remote: a body with its Content-Length header (<<>>  *)
(* if absent). The header tells the size of the body, or is absent, or tells *)
(* the size of the artifact while the stream ends early, or tells less than  *)
(* the body holds.                                                           *)
Responses ==
    {[header |-> <<Size(b)>>, body |-> b] : b \in Bodies}
    \cup {[header |-> <<>>, body |-> b] : b \in Bodies}
    \cup {[header |-> <<Size(GoodWeights)>>, body |-> b] : b \in Bodies}
    \cup {[header |-> <<1>>, body |-> b] : b \in Bodies}

DlFresh(f) ==
    [entry |-> f, net |-> 0, connected |-> FALSE, header |-> <<>>, served |-> 0, length |-> 0, counter |-> 0,
     rest |-> <<>>, received |-> <<>>, progress |-> <<>>, complete |-> FALSE]

(* Lines 83 to 91: the check, the progress bar, the file opened for writing, *)
(* the connection and the length header. A remote that cannot be reached     *)
(* raises URLError; a response with no Content-Length makes int(None) raise  *)
(* TypeError.                                                                *)
DownloadEnter ==
    /\ pc = "weights"
    /\ LET d == DlFresh(file)
           ev == [ev |-> "download_weights", arg |-> <<>>]
       IN IF check_weights_hash(file)
          THEN /\ dl' = <<[d EXCEPT !.complete = TRUE]>>
               /\ pc' = "model"
               /\ log' = Append(log, ev)
               /\ UNCHANGED <<file, fault>>
          ELSE /\ file' = OpenWb(file)
               /\ log' = Append(log, ev)
               /\ \E reachable \in BOOLEAN, resp \in Responses :
                    LET d1 == [d EXCEPT !.net = 1, !.progress = <<<<0, 1>>>>]
                        h == resp.header
                        b == resp.body
                    IN IF ~reachable
                       THEN /\ dl' = <<d1>>
                            /\ pc' = "fault" /\ fault' = "URLError"
                       ELSE IF h = <<>>
                            THEN /\ dl' = <<[d1 EXCEPT !.connected = TRUE, !.served = Size(b),
                                                       !.rest = b]>>
                                 /\ pc' = "fault" /\ fault' = "TypeError"
                            ELSE /\ dl' = <<[d1 EXCEPT !.connected = TRUE, !.header = h,
                                                       !.served = Size(b),
                                                       !.rest = b, !.length = h[1]]>>
                                 /\ pc' = "reading" /\ fault' = ""
    /\ UNCHANGED <<tableVars, boxVars, selected_frame, detector>>

(* response.read(8192) of http.client: at most 8192 bytes, at most what the *)
(* declared length leaves, and b'' once the body has ended.                  *)
Read(d) ==
    LET left == d.length - d.counter
        amt == IF CHUNK > left THEN left ELSE CHUNK
    IN Take(d.rest, amt)

(* Lines 93 to 99: one turn of the loop. *)
ReadChunk ==
    /\ pc = "reading"
    /\ LET d == dl[1]
           data == Read(d)
       IN IF data = <<>>
          THEN /\ dl' = <<[d EXCEPT !.complete = TRUE]>>
               /\ pc' = "model"
               /\ UNCHANGED <<file, fault>>
          ELSE LET counter == d.counter + Size(data)
                   d1 == [d EXCEPT !.counter = counter, !.rest = Drop(d.rest, Size(data)),
                                   !.received = Concat(d.received, data)]
               IN IF d.length = 0
                  THEN /\ dl' = <<d1>>
                       /\ pc' = "fault" /\ fault' = "ZeroDivisionError"
                       /\ UNCHANGED file
                  ELSE /\ dl' = <<[d1 EXCEPT !.progress =
                                     Append(d.progress, Clamp(Progress(counter, d.length)))]>>
                       /\ file' = <<Concat(file[1], data)>>
                       /\ UNCHANGED <<pc, fault>>
    /\ UNCHANGED <<tableVars, boxVars, log, selected_frame, detector>>

-----------------------------------------------------------------------------
(* main *)

\* the annotation table the render works on: frame 1 has two cars, frame 2 a car and a truck
Dataset ==
    << [frame |-> 1, xmin |-> 0, ymin |-> 0, xmax |-> 1, ymax |-> 1, label |-> "car"],
       [frame |-> 2, xmin |-> 0, ymin |-> 0, xmax |-> ImgW, ymax |-> ImgH, label |-> "truck"],
       [frame |-> 1, xmin |-> 0, ymin |-> 0, xmax |-> ImgW, ymax |-> 1, label |-> "car"],
       [frame |-> 2, xmin |-> 1, ymin |-> 0, xmax |-> ImgW, ymax |-> 1, label |-> "car"] >>

\* load_image(url) of the frame's url: what the remote holds for the frame
RemoteImage(f) == MakeImage(ImgH, ImgW, 100 * (f - 1))

\* @st.cache on load_image: the array of the first call is kept and handed out again
load_image(m, f) == [r \in DOMAIN m \cup {f} |-> IF r \in DOMAIN m THEN m[r] ELSE RemoteImage(f)]

\* metadata[metadata.frame == selected_frame].drop(columns=['frame'])
BoxesOf(md, f) ==
    LET rows == SelectSeq(md, LAMBDA r : r.frame = f)
    IN [i \in DOMAIN rows |->
          [xmin |-> rows[i].xmin, ymin |-> rows[i].ymin, xmax |-> rows[i].xmax,
           ymax |-> rows[i].ymax, label |-> rows[i].label]]

\* a plausible slip: len(selected_frames) < 0
NoFramesNever(sf) == Len(sf) < 0

\* len(selected_frames) < 1
NoFrames(sf) == Len(sf) < 1

Ev(e) == [ev |-> e, arg |-> <<>>]
EvImg(e, img) == [ev |-> e, arg |-> <<img>>]

(* Lines 102 to 139: the summary, the selection, the error and return when  *)
(* no frame fits, else the frame's image and its ground-truth overlay. The  *)
(* range slider hands out min_elts <= max_elts.                            *)
RenderStart ==
    /\ pc = "idle"
    /\ summary' = <<create_summary(metadata)>>
    /\ UNCHANGED <<detector, dl>>
    /\ \E label \in create_summary(metadata).columns, a \in 0..MaxElts, b \in 0..MaxElts :
         /\ a <= b
         /\ sel' = <<[label |-> label, min_elts |-> a, max_elts |-> b]>>
         /\ LET sf == get_selected_frames(create_summary(metadata), label, a, b)
            IN /\ selected_frames' = sf
               /\ IF NoFrames(sf)
                  THEN /\ log' = <<Ev("error")>>
                       /\ pc' = "done" /\ fault' = ""
                       /\ selected_frame' = 0
                       /\ UNCHANGED <<mem, boxes, out>>
                  ELSE IF sf = <<>>
                  THEN \* selected_frames[0] of an empty index
                       /\ log' = <<>>
                       /\ pc' = "fault" /\ fault' = "IndexError"
                       /\ selected_frame' = 0
                       /\ UNCHANGED <<mem, boxes, out>>
                  ELSE \E i \in 0..(Len(sf) - 1) :
                         LET f == sf[i + 1]
                             m == load_image(mem, f)
                             bs == BoxesOf(metadata, f)
                             r == add_boxes(m, f, bs)
                         IN /\ selected_frame' = f
                            /\ mem' = r.mem
                            /\ boxes' = bs
                            /\ out' = <<r>>
                            /\ IF r.fault # ""
                               THEN /\ pc' = "fault" /\ fault' = r.fault
                                    /\ log' = <<EvImg("load_image", m[f]), EvImg("add_boxes", m[f])>>
                               ELSE /\ pc' = "weights" /\ fault' = ""
                                    /\ log' = <<EvImg("load_image", m[f]), EvImg("add_boxes", m[f]),
                                                EvImg("image", r.image[1])>>
    /\ UNCHANGED <<metadata, file>>

(* The script run is over, by return or by the exception: the locals of     *)
(* main() are gone, the cache of load_image and the weights file stay.      *)
Finish ==
    /\ pc \in {"done", "fault"}
    /\ pc' = "idle" /\ fault' = "" /\ log' = <<>> /\ selected_frame' = 0
    /\ summary' = <<>> /\ sel' = <<>> /\ selected_frames' = <<>>
    /\ boxes' = <<>> /\ out' = <<>>
    /\ dl' = <<>> /\ detector' = <<>>
    /\ UNCHANGED <<metadata, mem, file>>

\* what the detector may hand back: its boxes are not this program's to choose
YoloOutputs ==
    { <<>>,
      <<[xmin |-> 0, ymin |-> 0, xmax |-> 1, ymax |-> 1, label |-> "car"]>>,
      <<[xmin |-> 0, ymin |-> 0, xmax |-> ImgW, ymax |-> ImgH, label |-> "truck"],
        [xmin |-> 0, ymin |-> 0, xmax |-> 1, ymax |-> 1, label |-> "bus"]>> }

(* Lines 142 to 159: with the box ticked, the detector on the image and the *)
(* weights path, then the overlay of what it found; else the warning.       *)
Model ==
    /\ pc = "model"
    /\ \E run \in BOOLEAN :
         IF run
         THEN \E yolo_boxes \in YoloOutputs :
                LET img == mem[selected_frame]
                    r == add_boxes(mem, selected_frame, yolo_boxes)
                IN /\ detector' = <<[image |-> img, weights |-> file]>>
                   /\ mem' = r.mem
                   /\ boxes' = yolo_boxes
                   /\ out' = <<r>>
                   /\ IF r.fault # ""
                      THEN /\ pc' = "fault" /\ fault' = r.fault
                           /\ log' = log \o <<EvImg("yolo_v3", img),
                                              EvImg("add_boxes", mem[selected_frame])>>
                      ELSE /\ pc' = "done" /\ fault' = ""
                           /\ log' = log \o <<EvImg("yolo_v3", img),
                                              EvImg("add_boxes", mem[selected_frame]),
                                              EvImg("image", r.image[1])>>
         ELSE /\ log' = Append(log, Ev("warning"))
              /\ pc' = "done"
              /\ UNCHANGED <<fault, detector, boxVars>>
    /\ UNCHANGED <<tableVars, selected_frame, file, dl>>

Init ==
    /\ metadata = Dataset
    /\ summary = <<>> /\ sel = <<>> /\ selected_frames = <<>>
    /\ BoxesIdle
    /\ pc = "idle" /\ fault = "" /\ log = <<>> /\ selected_frame = 0
    /\ file \in {<<>>} \cup {<<b>> : b \in Bodies}
    /\ dl = <<>> /\ detector = <<>>

Next == RenderStart \/ DownloadEnter \/ ReadChunk \/ Model \/ Finish

Spec == Init /\ [][Next]_vars

-----------------------------------------------------------------------------
(* The claims *)

CountRows(T, F, L) == Cardinality({i \in DOMAIN T : T[i].frame = F /\ T[i].label = L})

(* C6: create_summary(T) has exactly the distinct frames of T as its rows, *)
(* each once, and the cell [F, L] is the number of rows of T with frame F  *)
(* and label L, for every frame F and label L occurring in T.              *)
C6_SummaryCounts ==
    summary # <<>> =>
      LET S == summary[1]
          frames == {metadata[i].frame : i \in DOMAIN metadata}
          labels == {metadata[i].label : i \in DOMAIN metadata}
      IN /\ Range(S.index) = frames
         /\ Len(S.index) = Cardinality(frames)
         /\ DOMAIN S.data = frames
         /\ S.columns = {DummyCol(L) : L \in labels}
         /\ \A F \in frames : \A L \in labels :
              S.data[F][DummyCol(L)] = CountRows(metadata, F, L)

\* a summary with a count of 2 or more and a zero cell
C6_Witness ==
    /\ summary # <<>>
    /\ \E F \in DOMAIN summary[1].data : \E c \in summary[1].columns :
         summary[1].data[F][c] >= 2
    /\ \E F \in DOMAIN summary[1].data : \E c \in summary[1].columns :
         summary[1].data[F][c] = 0

IsSubsequenceInOrder(r, idx) ==
    \A i, j \in DOMAIN r : i < j =>
      \E k, l \in DOMAIN idx : k < l /\ idx[k] = r[i] /\ idx[l] = r[j]

(* C1: get_selected_frames(S, L, a, b) is exactly the frames F with         *)
(* a <= S[F, L] <= b, in the row order of S; it is empty when a > b.        *)
C1_SelectedFrames ==
    sel # <<>> =>
      LET S == summary[1]
          L == sel[1].label
          a == sel[1].min_elts
          b == sel[1].max_elts
      IN /\ Range(selected_frames) =
              {F \in Range(S.index) : a <= S.data[F][L] /\ S.data[F][L] <= b}
         /\ IsSubsequenceInOrder(selected_frames, S.index)
         /\ (a > b => selected_frames = <<>>)

\* a selection that keeps a frame at the lower end of the range and drops another
C1_Witness ==
    /\ sel # <<>>
    /\ sel[1].min_elts <= sel[1].max_elts
    /\ \E F \in Range(selected_frames) : summary[1].data[F][sel[1].label] = sel[1].min_elts
    /\ \E F \in Range(summary[1].index) : F \notin Range(selected_frames)

\* whether index i lies in the slice lo:hi of an axis of length n
InSlice(i, lo, hi, n) ==
    /\ 0 <= i /\ i < n
    /\ (IF lo < 0 THEN lo + n ELSE lo) <= i
    /\ i < (IF hi < 0 THEN hi + n ELSE hi)

\* the rows of bs, in order, whose region holds pixel p of an h x w image
Covering(bs, p, h, w) ==
    SelectSeq(bs, LAMBDA b : InSlice(p[1], b.ymin, b.ymax, h) /\ InSlice(p[2], b.xmin, b.xmax, w))

RECURSIVE WeightedSum(_, _, _)
\* sum of C_i * 2^(i-1) over the boxes of cs, for channel ch
WeightedSum(cs, ch, i) ==
    IF i > Len(cs) THEN 0
    ELSE LABEL_COLORS[cs[i].label][ch] * 2^(i - 1) + WeightedSum(cs, ch, i + 1)

\* v_m of v_0 = O, v_i = (v_(i-1) + C_i)/2 is (O + sum C_i 2^(i-1)) / 2^m
Compounded(O, cs, ch) == (O + WeightedSum(cs, ch, 1)) \div 2^Len(cs)

(* C7: boxes are applied in table order and overlapping boxes compound: a   *)
(* channel with original value O ends as the truncation of v := (v + C_i)/2 *)
(* applied, from v = O, for each box i in table order whose region          *)
(* [ymin:ymax, xmin:xmax] holds the pixel; a pixel in no box is unchanged   *)
(* and every output is in 0..255. Two blends toward C give                  *)
(* ((O + C)/2 + C)/2.                                                       *)
C7_BlendCompounds ==
    (out # <<>> /\ out[1].fault = "") =>
      LET orig == mem[ImageRef]
          res == out[1].image[1]
      IN \A p \in Positions(orig) : \A ch \in Channels :
           LET cs == Covering(boxes, p, orig.h, orig.w)
               O == orig.px[p][ch][1]
               v == res.px[p][ch]
           IN /\ v[2] = 0 /\ v[1] \in 0..255
              /\ v[1] = Compounded(O, cs, ch)
              /\ (cs = <<>> => v[1] = O)
              /\ (Len(cs) = 2 /\ cs[1].label = cs[2].label =>
                    LET C == LABEL_COLORS[cs[1].label][ch]
                    IN /\ 4 * v[1] <= O + 3 * C /\ O + 3 * C < 4 * (v[1] + 1))

\* two boxes of one label over a pixel, where blending once would give another value
C7_Witness ==
    /\ out # <<>> /\ out[1].fault = "" /\ Len(boxes) = 2
    /\ boxes[1].label = boxes[2].label
    /\ \E p \in Positions(mem[ImageRef]) : \E ch \in Channels :
         /\ Len(Covering(boxes, p, ImgH, ImgW)) = 2
         /\ out[1].image[1].px[p][ch][1] #
              (mem[ImageRef].px[p][ch][1] + LABEL_COLORS[boxes[1].label][ch]) \div 2

Clipped(img, box) ==
    {p \in Positions(img) :
       /\ box.ymin <= p[1] /\ p[1] < box.ymax
       /\ box.xmin <= p[2] /\ p[2] < box.xmax}

(* C8: box coordinates outside the image clip: for every box the pixels     *)
(* blended are exactly the rectangle [ymin, ymax) x [xmin, xmax) cut to the *)
(* image area [0, H) x [0, W), and no fault is raised.                      *)
C8_ClipsToImage ==
    (out # <<>> /\ \A i \in DOMAIN boxes : boxes[i].label \in DOMAIN LABEL_COLORS) =>
      /\ out[1].fault = ""
      /\ \A i \in DOMAIN boxes : out[1].regions[i] = Clipped(mem[ImageRef], boxes[i])

\* the file is there and its full-file checksum is the known-good hash
ChecksumMatches(f) == f # <<>> /\ md5(f[1]) = WEIGTHS_MD5

(* C2: whenever yolov3.yolo_v3 is called in a render, the weights file at   *)
(* the path passed to it has, at that moment, a checksum equal to the       *)
(* known-good hash.                                                         *)
C2_DetectorWeightsValid == detector # <<>> => ChecksumMatches(detector[1].weights)

(* C3: download_weights opens a network connection if and only if the file  *)
(* is absent or its checksum differs from the known-good hash: a matching   *)
(* file is left as it is with no network call, any other file is opened     *)
(* anew and holds exactly the bytes received from the remote.               *)
C3_NetworkIffInvalid ==
    dl # <<>> =>
      LET d == dl[1]
      IN /\ (d.net > 0) <=> ~ChecksumMatches(d.entry)
         /\ d.net <= 1
         /\ ChecksumMatches(d.entry) => file = d.entry /\ d.complete /\ fault # "URLError"
         /\ ~ChecksumMatches(d.entry) => file = <<d.received>>
         /\ (d.complete /\ d.net = 1) => (d.rest = <<>> \/ d.counter = d.length)

\* a file that was there with another checksum, replaced by the downloaded artifact
C3_Witness ==
    /\ dl # <<>>
    /\ dl[1].entry # <<>> /\ dl[1].entry[1] # <<>> /\ ~ChecksumMatches(dl[1].entry)
    /\ dl[1].complete /\ dl[1].net = 1
    /\ ChecksumMatches(file)

(* C4: in a render where the frame selection is empty the message is shown  *)
(* and the render ends without a fault, and nothing else happens in it: no  *)
(* image load, no box overlay, no weights download, no detection call.      *)
C4_EmptySelectionHalts ==
    (pc # "idle" /\ sel # <<>> /\ selected_frames = <<>>) =>
      /\ log = <<Ev("error")>>
      /\ pc = "done" /\ fault = ""
      /\ selected_frame = 0
      /\ dl = <<>> /\ detector = <<>> /\ out = <<>>

\* an empty selection in a render that follows one that loaded an image
C4_Witness ==
    /\ pc = "done" /\ sel # <<>> /\ selected_frames = <<>>
    /\ mem # <<>>

\* p <= q for fractions with positive denominators
FracLeq(p, q) == p[1] * q[2] <= q[1] * p[2]

(* C5: for a download with declared length N > 0 whose body of N bytes is   *)
(* read in chunks of 8192 bytes, there are exactly ceil(N/8192) progress    *)
(* updates after the initial 0, every value lies in [0, 1], the values      *)
(* never decrease, and the last one is 1.0.                                 *)
C5_ProgressUpdates ==
    (dl # <<>> /\ dl[1].connected /\ dl[1].header # <<>> /\ dl[1].header[1] > 0
       /\ dl[1].served = dl[1].header[1]) =>
      LET d == dl[1]
          N == d.header[1]
          ups == d.progress
      IN /\ ups # <<>> /\ ups[1] = <<0, 1>>
         /\ \A i \in DOMAIN ups : ups[i][2] > 0 /\ 0 <= ups[i][1] /\ ups[i][1] <= ups[i][2]
         /\ \A i, j \in DOMAIN ups : i <= j => FracLeq(ups[i], ups[j])
         /\ Len(ups) - 1 <= (N + CHUNK - 1) \div CHUNK
         /\ d.complete =>
              /\ Len(ups) - 1 = (N + CHUNK - 1) \div CHUNK
              /\ ups[Len(ups)][1] = ups[Len(ups)][2]

\* a finished download whose last chunk is not full
C5_Witness ==
    /\ dl # <<>> /\ dl[1].connected /\ dl[1].complete
    /\ dl[1].header # <<>> /\ dl[1].header[1] > CHUNK /\ dl[1].header[1] % CHUNK # 0
    /\ dl[1].served = dl[1].header[1]
    /\ Len(dl[1].progress) >= 3

(* C9: when the response has no length header, or a zero one,               *)
(* download_weights does not fault and every chunk received is written to   *)
(* the file.                                                                *)
C9_NoLengthNoFault ==
    (dl # <<>> /\ dl[1].connected /\ (dl[1].header = <<>> \/ dl[1].header[1] = 0)) =>
      /\ fault = ""
      /\ file = <<dl[1].received>>

(* C10: add_boxes never changes the image it is given, also when it faults  *)
(* on an unmapped label part-way: in every render, and over any sequence of *)
(* renders, the cached image of a frame is the image as loaded, and so is   *)
(* the image handed to the detector and to each overlay.                    *)
C10_InputNotMutated ==
    /\ \A f \in DOMAIN mem : mem[f] = RemoteImage(f)
    /\ detector # <<>> => detector[1].image = RemoteImage(selected_frame)
    /\ \A i \in DOMAIN log :
         log[i].ev \in {"add_boxes", "yolo_v3"} => log[i].arg = <<RemoteImage(selected_frame)>>

\* the detection overlay faulted on an unmapped label after it blended a box
C10_Witness ==
    /\ pc = "fault" /\ fault = "KeyError"
    /\ detector # <<>>
    /\ out # <<>> /\ out[1].regions # <<>> /\ out[1].regions[1] # {}

=============================================================================
